---- MODULE Spec2Model ----
\* Bank Account Management System (bank_system.py): the account classes,
\* the JSON file-per-account persistence and the menu-driven flows.
\*
\* Amounts are the finite floats that float(input()) yields; they are modelled
\* as whole currency units (integers).  Interest rates are modelled in percent
\* (0.05 is 5), so balance * rate is an amount in hundredths of a unit.
EXTENDS Integers, Sequences, FiniteSets, TLC

\* ---------------------------------------------------------------- bounds
MaxAmount == 2
MaxBalance == 4

\* ---------------------------------------------------------------- inputs
Ids == {"A1", "A2"}
Names == {"Ann", "Bob"}
Amounts == (0 - 1) .. MaxAmount
\* what the user types at an amount prompt: a numeral or something else
Typed == [numeric : {TRUE}, value : Amounts] \cup {[numeric |-> FALSE, value |-> 0]}
DefaultRate == 5
\* Account files already in the working directory when main starts: documents
\* of the persisted format, in which "type" and "interest_rate" may be absent
\* (load_from_file reads both with data.get) and "type" may hold any string.
StoredRates == {DefaultRate, 7}
StoredTypes == {"BankAccount", "SavingsAccount", "CurrentAccount"}
StoredNames == {"Ann"}
StoredBalances == {0, MaxAmount}
StoredDocs(id) ==
  {[account_number |-> id, name |-> n, balance |-> b] :
     n \in StoredNames, b \in StoredBalances}
  \cup {[type |-> t, account_number |-> id, name |-> n, balance |-> b] :
     t \in StoredTypes, n \in StoredNames, b \in StoredBalances}
  \cup {[type |-> "SavingsAccount", account_number |-> id, name |-> n, balance |-> b,
         interest_rate |-> r] :
     n \in StoredNames, b \in StoredBalances, r \in StoredRates}
Directories ==
  UNION {{d \in [S -> UNION {StoredDocs(i) : i \in S}] :
            \A i \in S : d[i] \in StoredDocs(i)} : S \in SUBSET Ids}

VARIABLES
  files,        \* the working directory: account number -> parsed JSON document
  stdout,       \* the lines printed by the last menu operation
  running,      \* the while True loop of main has not reached break
  choice,       \* the last menu choice
  acc_num,      \* the account number typed in the last operation
  typed,        \* the amount typed in the last operation
  loaded,       \* the account as load_from_file returned it (<<>> is None)
  account,      \* the local variable account at the end of the operation
  old_files     \* the working directory before the last operation

vars == <<files, stdout, running, choice, acc_num, typed, loaded, account, old_files>>

NoTyped == [numeric |-> FALSE, value |-> 0]

\* ---------------------------------------------------------------- helpers
\* float(input(...)): the value, or ValueError
float(t) == IF t.numeric THEN [raised |-> FALSE, value |-> t.value]
            ELSE [raised |-> TRUE, value |-> 0]

\* open(name, "w") + json.dump: the document replaces the file's content
DumpFile(fs, fname, data) ==
  [f \in (DOMAIN fs) \cup {fname} |-> IF f = fname THEN data ELSE fs[f]]

\* ---------------------------------------------------------------- classes
BankAccount(account_number, name, balance) ==
  [cls |-> "BankAccount", account_number |-> account_number, name |-> name,
   balance |-> balance]

SavingsAccount(account_number, name, balance, interest_rate) ==
  [cls |-> "SavingsAccount", account_number |-> account_number, name |-> name,
   balance |-> balance, interest_rate |-> interest_rate]

\* deposit with the bound of the validity check off by one
deposit_off_by_one(self, amount) ==
  IF amount <= 1
  THEN [self |-> self, out |-> << <<"Error:", "Deposit amount must be positive.">> >>]
  ELSE [self |-> [self EXCEPT !.balance = @ + amount],
        out |-> << <<"deposited successfully!", ToString(amount)>> >>]

\* deposit that updates the balance before it validates the amount
deposit_update_first(self, amount) ==
  IF amount <= 0
  THEN [self |-> [self EXCEPT !.balance = @ + amount],
        out |-> << <<"Error:", "Deposit amount must be positive.">> >>]
  ELSE [self |-> [self EXCEPT !.balance = @ + amount],
        out |-> << <<"deposited successfully!", ToString(amount)>> >>]

deposit(self, amount) ==
  IF amount <= 0
  THEN [self |-> self, out |-> << <<"Error:", "Deposit amount must be positive.">> >>]
  ELSE [self |-> [self EXCEPT !.balance = @ + amount],
        out |-> << <<"deposited successfully!", ToString(amount)>> >>]

\* withdraw that refuses to empty the account
withdraw_keep_one(self, amount) ==
  IF amount <= 0
  THEN [self |-> self, out |-> << <<"Error:", "Withdrawal amount must be positive.">> >>]
  ELSE IF amount >= self.balance
  THEN [self |-> self, out |-> << <<"Error:", "Insufficient balance!">> >>]
  ELSE [self |-> [self EXCEPT !.balance = @ - amount],
        out |-> << <<"withdrawn successfully!", ToString(amount)>> >>]

\* withdraw that checks the funds before the validity of the amount
withdraw_funds_first(self, amount) ==
  IF amount > self.balance
  THEN [self |-> self, out |-> << <<"Error:", "Insufficient balance!">> >>]
  ELSE IF amount <= 0
  THEN [self |-> self, out |-> << <<"Error:", "Withdrawal amount must be positive.">> >>]
  ELSE [self |-> [self EXCEPT !.balance = @ - amount],
        out |-> << <<"withdrawn successfully!", ToString(amount)>> >>]

withdraw(self, amount) ==
  IF amount <= 0
  THEN [self |-> self, out |-> << <<"Error:", "Withdrawal amount must be positive.">> >>]
  ELSE IF amount > self.balance
  THEN [self |-> self, out |-> << <<"Error:", "Insufficient balance!">> >>]
  ELSE [self |-> [self EXCEPT !.balance = @ - amount],
        out |-> << <<"withdrawn successfully!", ToString(amount)>> >>]

get_balance(self) == self.balance

display_account_info(self) ==
  << <<"===== Account Details =====">>,
     <<"Account Number:", self.account_number>>,
     <<"Account Holder:", self.name>>,
     <<"Current Balance:", ToString(self.balance)>>,
     <<"===========================">> >>

\* SavingsAccount.calculate_interest: the interest and the line it prints
calculate_interest_method(self) ==
  LET interest == get_balance(self) * self.interest_rate
  IN  [interest |-> interest,
       out |-> << <<"Annual Interest:", ToString(self.interest_rate), ToString(interest)>> >>]

BankAccount_save_to_file(self, fs) ==
  LET data == [type |-> "BankAccount", account_number |-> self.account_number,
               name |-> self.name, balance |-> self.balance]
  IN  [fs |-> DumpFile(fs, self.account_number, data),
       out |-> << <<"Account data saved successfully!">> >>]

\* the override that forgets to write the interest rate
SavingsAccount_save_without_rate(self, fs) ==
  LET data == [type |-> "SavingsAccount", account_number |-> self.account_number,
               name |-> self.name, balance |-> get_balance(self)]
  IN  [fs |-> DumpFile(fs, self.account_number, data),
       out |-> << <<"Savings account data saved successfully!">> >>]

SavingsAccount_save_to_file(self, fs) ==
  LET data == [type |-> "SavingsAccount", account_number |-> self.account_number,
               name |-> self.name, balance |-> get_balance(self),
               interest_rate |-> self.interest_rate]
  IN  [fs |-> DumpFile(fs, self.account_number, data),
       out |-> << <<"Savings account data saved successfully!">> >>]

\* method dispatch on the object's class
save_to_file(self, fs) ==
  IF self.cls = "SavingsAccount" THEN SavingsAccount_save_to_file(self, fs)
  ELSE BankAccount_save_to_file(self, fs)

\* data.get("interest_rate", 0.05)
get_interest_rate(data) ==
  IF "interest_rate" \in DOMAIN data THEN data.interest_rate ELSE DefaultRate

\* a dispatch that takes every type but "BankAccount" for a savings account
type_is_not_bank(data) ==
  "type" \notin DOMAIN data \/ data.type # "BankAccount"

\* data.get("type") == "SavingsAccount"
type_is_savings(data) ==
  "type" \in DOMAIN data /\ data.type = "SavingsAccount"

\* a load that opens a fresh account when the file does not exist
load_or_open(fs, account_number) ==
  IF account_number \in DOMAIN fs
  THEN LET data == fs[account_number]
       IN  IF type_is_savings(data)
           THEN [account |-> <<SavingsAccount(data.account_number, data.name,
                                              data.balance, get_interest_rate(data))>>,
                 out |-> <<>>]
           ELSE [account |-> <<BankAccount(data.account_number, data.name, data.balance)>>,
                 out |-> <<>>]
  ELSE [account |-> <<BankAccount(account_number, "Ann", 0)>>,
        out |-> << <<"Account not found!">> >>]

load_from_file(fs, account_number) ==
  IF account_number \in DOMAIN fs
  THEN LET data == fs[account_number]
       IN  IF type_is_savings(data)
           THEN [account |-> <<SavingsAccount(data.account_number, data.name,
                                              data.balance, get_interest_rate(data))>>,
                 out |-> <<>>]
           ELSE [account |-> <<BankAccount(data.account_number, data.name, data.balance)>>,
                 out |-> <<>>]
  ELSE [account |-> <<>>, out |-> << <<"Account not found!">> >>]

isinstance_SavingsAccount(obj) == obj.cls = "SavingsAccount"

\* ---------------------------------------------------------------- flows
create_account ==
  /\ running
  /\ \E num \in Ids, name \in Names, t \in Typed, acc_type \in {"1", "2"} :
       LET dep == float(t)
           obj == IF acc_type = "2"
                  THEN SavingsAccount(num, name, dep.value, DefaultRate)
                  ELSE BankAccount(num, name, dep.value)
           saved == save_to_file(obj, files)
       IN  /\ choice' = "1"
           /\ acc_num' = num
           /\ typed' = t
           /\ loaded' = <<>>
           /\ IF dep.raised
              THEN /\ files' = files
                   /\ account' = <<>>
                   /\ stdout' = << <<"=== Create New Account ===">>,
                                   <<"Please enter a valid numeric amount!">> >>
              ELSE /\ files' = saved.fs
                   /\ account' = <<obj>>
                   /\ stdout' = << <<"=== Create New Account ===">>,
                                   <<"1. Normal Bank Account 2. Savings Account (5% Interest)">> >>
                                 \o saved.out
                                 \o << <<"Account created successfully!", name>> >>
  /\ old_files' = files
  /\ UNCHANGED running

deposit_money ==
  /\ running
  /\ \E num \in Ids, t \in Typed :
       LET ld == load_from_file(files, num)
           amt == float(t)
       IN  /\ choice' = "2"
           /\ acc_num' = num
           /\ loaded' = ld.account
           /\ IF ld.account = <<>>
              THEN /\ typed' = NoTyped
                   /\ account' = <<>>
                   /\ files' = files
                   /\ stdout' = ld.out
              ELSE /\ typed' = t
                   /\ IF amt.raised
                      THEN /\ account' = ld.account
                           /\ files' = files
                           /\ stdout' = ld.out \o << <<"Please enter a valid numeric amount!">> >>
                      ELSE LET r == deposit(ld.account[1], amt.value)
                               saved == save_to_file(r.self, files)
                           IN  /\ r.self.balance <= MaxBalance
                               /\ account' = <<r.self>>
                               /\ files' = saved.fs
                               /\ stdout' = ld.out \o r.out \o saved.out
  /\ old_files' = files
  /\ UNCHANGED running

withdraw_money ==
  /\ running
  /\ \E num \in Ids, t \in Typed :
       LET ld == load_from_file(files, num)
           amt == float(t)
       IN  /\ choice' = "3"
           /\ acc_num' = num
           /\ loaded' = ld.account
           /\ IF ld.account = <<>>
              THEN /\ typed' = NoTyped
                   /\ account' = <<>>
                   /\ files' = files
                   /\ stdout' = ld.out
              ELSE /\ typed' = t
                   /\ IF amt.raised
                      THEN /\ account' = ld.account
                           /\ files' = files
                           /\ stdout' = ld.out \o << <<"Please enter a valid numeric amount!">> >>
                      ELSE LET r == withdraw(ld.account[1], amt.value)
                               saved == save_to_file(r.self, files)
                           IN  /\ account' = <<r.self>>
                               /\ files' = saved.fs
                               /\ stdout' = ld.out \o r.out \o saved.out
  /\ old_files' = files
  /\ UNCHANGED running

check_balance ==
  /\ running
  /\ \E num \in Ids :
       LET ld == load_from_file(files, num)
       IN  /\ choice' = "4"
           /\ acc_num' = num
           /\ loaded' = ld.account
           /\ account' = ld.account
           /\ stdout' = IF ld.account = <<>> THEN ld.out
                        ELSE ld.out \o display_account_info(ld.account[1])
  /\ typed' = NoTyped
  /\ old_files' = files
  /\ UNCHANGED <<files, running>>

calculate_interest ==
  /\ running
  /\ \E num \in Ids :
       LET ld == load_from_file(files, num)
       IN  /\ choice' = "5"
           /\ acc_num' = num
           /\ loaded' = ld.account
           /\ account' = ld.account
           /\ stdout' = IF ld.account # <<>> /\ isinstance_SavingsAccount(ld.account[1])
                        THEN ld.out \o calculate_interest_method(ld.account[1]).out
                        ELSE ld.out \o
                             << <<"Interest calculation is only available for Savings Accounts!">> >>
  /\ typed' = NoTyped
  /\ old_files' = files
  /\ UNCHANGED <<files, running>>

exit_program ==
  /\ running
  /\ choice' = "6"
  /\ running' = FALSE
  /\ stdout' = << <<"Thank you for using our banking system. Goodbye!">> >>
  /\ acc_num' = acc_num
  /\ typed' = NoTyped
  /\ loaded' = <<>>
  /\ account' = <<>>
  /\ old_files' = files
  /\ UNCHANGED files

invalid_choice ==
  /\ running
  /\ choice' = "x"
  /\ stdout' = << <<"Invalid choice! Please enter a number between 1 and 6.">> >>
  /\ acc_num' = acc_num
  /\ typed' = NoTyped
  /\ loaded' = <<>>
  /\ account' = <<>>
  /\ old_files' = files
  /\ UNCHANGED <<files, running>>

\* ---------------------------------------------------------------- main
Idle ==
  /\ stdout = <<>>
  /\ running = TRUE
  /\ choice = "0"
  /\ acc_num = "A1"
  /\ typed = NoTyped
  /\ loaded = <<>>
  /\ account = <<>>
  /\ old_files = files

\* main started in an empty working directory: every account file is one
\* that save_to_file wrote
Init ==
  /\ files = <<>>
  /\ Idle

\* main started in a working directory that already holds account files
InitStored ==
  /\ files \in Directories
  /\ Idle

Next ==
  \/ create_account
  \/ deposit_money
  \/ withdraw_money
  \/ check_balance
  \/ calculate_interest
  \/ exit_program
  \/ invalid_choice

Spec == Init /\ [][Next]_vars

SpecStored == InitStored /\ [][Next]_vars

\* ---------------------------------------------------------------- properties
HasLine(first) == \E i \in 1 .. Len(stdout) : stdout[i][1] = first
HasError(msg) == \E i \in 1 .. Len(stdout) : stdout[i] = <<"Error:", msg>>

\* the operation loaded an account and read a numeric amount
MutatingCall(c) == choice = c /\ loaded # <<>> /\ typed.numeric

\* C1: every in-memory account and every persisted record has balance >= 0
C1_BalanceNonNegative ==
  /\ \A f \in DOMAIN files : files[f].balance >= 0
  /\ account # <<>> => account[1].balance >= 0

\* C2: a deposit of d > 0 reports no error and leaves the balance at the
\* previous balance plus d, with every other attribute unchanged
C2_DepositPositive ==
  (MutatingCall("2") /\ typed.value > 0) =>
     /\ ~HasLine("Error:")
     /\ HasLine("deposited successfully!")
     /\ account = <<[loaded[1] EXCEPT !.balance = loaded[1].balance + typed.value]>>

C2_Witness ==
  /\ MutatingCall("2") /\ typed.value > 0
  /\ loaded[1].cls = "SavingsAccount"
  /\ account[1].balance = loaded[1].balance + typed.value
  /\ account[1].interest_rate = loaded[1].interest_rate

\* C3: a withdrawal of w with 0 < w <= balance succeeds and leaves the balance
\* at the previous balance minus w; withdrawing the full balance yields 0
C3_WithdrawWithinBalance ==
  (MutatingCall("3") /\ 0 < typed.value /\ typed.value <= loaded[1].balance) =>
     /\ ~HasLine("Error:")
     /\ HasLine("withdrawn successfully!")
     /\ account = <<[loaded[1] EXCEPT !.balance = loaded[1].balance - typed.value]>>
     /\ (typed.value = loaded[1].balance => account[1].balance = 0)

C3_Witness ==
  /\ MutatingCall("3") /\ 0 < typed.value /\ typed.value = loaded[1].balance
  /\ account[1].balance = 0
  /\ HasLine("withdrawn successfully!")

\* C4: withdraw reports the invalid amount whenever w <= 0, whatever the
\* balance; reports insufficient balance exactly when w > 0 and w > balance;
\* and leaves the balance unchanged in both cases
C4_WithdrawErrors ==
  MutatingCall("3") =>
     /\ typed.value <= 0 =>
          /\ HasError("Withdrawal amount must be positive.")
          /\ ~HasError("Insufficient balance!")
     /\ HasError("Insufficient balance!") <=>
          (typed.value > 0 /\ typed.value > loaded[1].balance)
     /\ HasLine("Error:") => account = loaded

C4_Witness ==
  /\ MutatingCall("3")
  /\ typed.value <= 0 /\ typed.value > loaded[1].balance
  /\ HasError("Withdrawal amount must be positive.")
  /\ account = loaded

\* the last operation was rejected: a non-positive deposit, a non-positive or
\* excessive withdrawal, or a non-numeric amount in create, deposit or withdraw
FailedOperation ==
  \/ MutatingCall("2") /\ typed.value <= 0
  \/ MutatingCall("3") /\ (typed.value <= 0 \/ typed.value > loaded[1].balance)
  \/ choice \in {"2", "3"} /\ loaded # <<>> /\ ~typed.numeric
  \/ choice = "1" /\ ~typed.numeric

SavedCall ==
  /\ account # <<>>
  /\ \/ choice = "1"
     \/ choice \in {"2", "3"} /\ typed.numeric

\* C6: saving an account and loading it by its account number reconstructs an
\* account of the same variant with equal id, holder, balance and rate
C6_RoundTrip ==
  SavedCall =>
     LET A == account[1]
         B == load_from_file(files, A.account_number).account
     IN  /\ B # <<>>
         /\ B[1].cls = A.cls
         /\ B[1].account_number = A.account_number
         /\ B[1].name = A.name
         /\ B[1].balance = A.balance
         /\ A.cls = "SavingsAccount" => B[1].interest_rate = A.interest_rate

C6_Witness ==
  /\ SavedCall
  /\ account[1].cls = "SavingsAccount"
  /\ account[1].interest_rate # DefaultRate
  /\ load_from_file(files, account[1].account_number).account = account

\* C7: loading an existing record dispatches on the stored type:
\* "SavingsAccount" gives a Savings account with the stored rate, or the
\* default rate when the field is absent; any other or missing type gives a
\* plain account; the load never fails
C7_LoadDispatch ==
  (choice \in {"2", "3", "4", "5"} /\ acc_num \in DOMAIN old_files) =>
     LET data == old_files[acc_num]
     IN  /\ loaded # <<>>
         /\ ~HasLine("Account not found!")
         /\ loaded[1].account_number = data.account_number
         /\ loaded[1].name = data.name
         /\ loaded[1].balance = data.balance
         /\ IF "type" \in DOMAIN data /\ data.type = "SavingsAccount"
            THEN /\ loaded[1].cls = "SavingsAccount"
                 /\ loaded[1].interest_rate =
                      IF "interest_rate" \in DOMAIN data THEN data.interest_rate
                      ELSE DefaultRate
            ELSE /\ loaded[1].cls = "BankAccount"
                 /\ "interest_rate" \notin DOMAIN loaded[1]

C7_Witness ==
  /\ choice = "5" /\ acc_num \in DOMAIN old_files
  /\ "type" \notin DOMAIN old_files[acc_num]
  /\ loaded # <<>> /\ loaded[1].cls = "BankAccount"
  /\ HasLine("Interest calculation is only available for Savings Accounts!")

\* C8: computing interest gives exactly one of: the amount balance * rate for
\* a Savings record, not-a-savings-account for a plain record, not-found for
\* an absent id (and then not not-a-savings-account)
C8_InterestOutcomes ==
  choice = "5" =>
     LET found == acc_num \in DOMAIN old_files
         savings == found /\ loaded # <<>> /\ loaded[1].cls = "SavingsAccount"
     IN  /\ HasLine("Account not found!") <=> ~found
         /\ HasLine("Interest calculation is only available for Savings Accounts!")
              <=> (found /\ ~savings)
         /\ HasLine("Annual Interest:") <=> savings
         /\ savings =>
              \E i \in 1 .. Len(stdout) :
                 stdout[i] = <<"Annual Interest:", ToString(loaded[1].interest_rate),
                               ToString(loaded[1].balance * loaded[1].interest_rate)>>

\* C9: no operation changes an existing record's holder name, interest rate
\* or variant; its balance changes only through deposit and withdraw
C9_RecordImmutable ==
  \A f \in DOMAIN old_files :
     /\ f \in DOMAIN files
     /\ files[f].name = old_files[f].name
     /\ type_is_savings(files[f]) = type_is_savings(old_files[f])
     /\ type_is_savings(files[f]) =>
          get_interest_rate(files[f]) = get_interest_rate(old_files[f])
     /\ files[f].balance # old_files[f].balance => choice \in {"2", "3"}

\* C10: only create adds an id to the store; deposit, withdraw, balance and
\* interest on an id without a record report not-found and leave the store
\* unchanged; balance and interest never modify a record
C10_StoreFrame ==
  /\ DOMAIN old_files \subseteq DOMAIN files
  /\ DOMAIN files # DOMAIN old_files => choice = "1"
  /\ (choice \in {"2", "3", "4", "5"} /\ acc_num \notin DOMAIN old_files) =>
        /\ HasLine("Account not found!")
        /\ files = old_files
  /\ choice \in {"4", "5"} => files = old_files

C10_Witness ==
  /\ choice = "2" /\ acc_num \notin DOMAIN old_files
  /\ DOMAIN old_files # {}
  /\ HasLine("Account not found!")
  /\ files = old_files
====
